---- MODULE Spec2Model ----
(***************************************************************************)
(* The chase-tag task of myosuite (myochallenge/chasetag_v0.py): the       *)
(* ChallengeOpponent (policy state machine and kinematic integrator) and   *)
(* the ChaseTagEnvV0 episode logic (setup, step, reset, reward and         *)
(* termination flags).                                                     *)
(*                                                                         *)
(* Fixed-point units.  The program computes in floating point; here        *)
(*   lengths are in millimetres            (5.5 m   -> 5500),              *)
(*   angles are in milliradians            (pi      -> 3142),              *)
(*   velocities are in thousandths         (1.0     -> 1000),              *)
(*   times are in milliseconds             (20 s    -> 20000),             *)
(*   probabilities are in thousandths      (0.45    -> 450),               *)
(*   the sparse score is in units of 1/(100*maxTime) = 1/2000,             *)
(*   terrain heights are in 1/100 mm       (0.08 m  -> 8000).              *)
(*                                                                         *)
(* Specifications.  Spec follows the environment (construction, setup,     *)
(* step, reset) with the default terrain 'flat'; SpecOpponent drives the   *)
(* opponent on its own; SpecTwin runs two environments with one seed;      *)
(* SpecTerrain follows a HeightField (construction, sample, window);       *)
(* SpecResetState follows _get_reset_state.                                *)
(*                                                                         *)
(* The pelvis and the root body share one planar position (root_pos).      *)
(* The keys act_reg, distance and dense of the reward dict, the muscle and *)
(* proprioceptive keys of the observation dict are not represented.        *)
(***************************************************************************)
EXTENDS Integers, Sequences, FiniteSets

VARIABLES
    cfg,              \* the keyword arguments of _setup (never changes)
    pc,               \* where the program is (see PcValues)
    error,            \* the exception raised by the last call, or "none"
    startFlag,        \* ChaseTagEnvV0.startFlag
    opponent_policy,  \* ChallengeOpponent.opponent_policy ("unset": no attribute)
    policy_draw,      \* history: what the last sample_opponent_policy assigned
    mocap_pos,        \* sim.data.mocap_pos[0, :2]
    mocap_quat,       \* sim.data.mocap_quat[0, :], held as its yaw in (-pi, pi]
    opponent_vel,     \* ChallengeOpponent.opponent_vel
    spawn_pose,       \* history: the pose the last reset_opponent wrote
    root_pos,         \* planar position of the agent (root / pelvis body)
    pelvis_z,         \* sim.data.body('pelvis').xpos[2]
    time,             \* sim.data.time
    current_task,     \* ChaseTagEnvV0.current_task
    obs_dict,         \* ChaseTagEnvV0.obs_dict
    rwd_dict,         \* ChaseTagEnvV0.rwd_dict
    nsteps,           \* steps taken in the current episode
    last_op,          \* history: the last operation that ran
    twin,             \* two environments run side by side (see SpecTwin)
    heightfield,      \* ChaseTagEnvV0.heightfield (see SpecTerrain)
    reset_state       \* what _get_reset_state computed (see SpecResetState)

\* The variables of the environment and of its opponent.
envVars == <<cfg, pc, error, startFlag, opponent_policy, policy_draw, mocap_pos,
             mocap_quat, opponent_vel, spawn_pose, root_pos, pelvis_z, time,
             current_task, obs_dict, rwd_dict, nsteps, last_op>>

\* The variables of the specifications that exercise one part on its own.
auxVars == <<twin, heightfield, reset_state>>

vars == <<envVars, auxVars>>

(***************************************************************************)
(* Bounds and input samples                                                *)
(***************************************************************************)

\* Steps of one episode that the model follows.
MaxSteps == 2

\* Values drawn for rng.uniform() in sample_opponent_policy.
RandNums == {50, 200, 400, 700}

\* Values drawn for rng.uniform(-5, 5) and rng.uniform(-2*pi, 2*pi).
SpawnCoords == {-5000, 1000}
SpawnAngles == {-6000}

\* Values returned by noise_process.sample(): <<linear, angular>>.
NoiseSamples == {<<-3000, 400>>, <<500, -2500>>}

\* Poses the opponent reaches after a long run of ticks from a spawn pose
\* (10 mm per tick at most); set_opponent_pose puts it there directly.
TeleportPoses == {<<5495, 0, 1571>>, <<0, -5498, 0>>}

\* What the physics collaborator may report after an advance.
AgentPositions == {<<0, -4500>>, <<6600, 0>>, <<-6500, -6600>>}
AgentHeights == {300, 500}
TimeSamples == {1234, 19996, 20000}

\* Values drawn for np.random.uniform(-6, 6) in _randomize_position_orientation.
UniformSamples == {1500, -3000}

\* Seeds given to the two environments of SpecTwin, resets they go through,
\* and iterations of the spawn loop followed inside one reset_opponent.
Seeds == {0, 1, 2, 3}
MaxEpisodes == 2
MaxAttempts == 6

\* Regenerations of the terrain that SpecTerrain follows.
MaxRegens == 2

\* Heightfields of the model file (nrow = ncol) and keyword arguments of
\* HeightField that SpecTerrain explores.
HeightFieldConfigs ==
    { [nrow |-> 4, patches_per_side |-> 2, view_distance |-> 2],
      [nrow |-> 6, patches_per_side |-> 3, view_distance |-> 3],
      [nrow |-> 8, patches_per_side |-> 3, view_distance |-> 4],
      [nrow |-> 8, patches_per_side |-> 1, view_distance |-> 5] }

\* Planar positions of the agent (sim.data.qpos[:2]) when the window is read.
WindowPositions == {<<0, 0>>, <<6500, -6500>>, <<-6500, 6500>>, <<1500, -3100>>}

\* Values drawn for self.np_random.uniform() in _get_randomized_initial_state.
KeyDraws == {250, 750}

\* Values drawn for self.np_random.normal(0, 0.02, size=qpos.shape), in
\* thousandths: the planar position, the height, the quaternion, two joints.
NoiseVectors ==
    {<<a, -a, h, q, -q, q, -q, j, -j>> :
        a \in {-20, 10, 20}, h \in {-20, 10, 20}, q \in {-20, 10, 20},
        j \in {-20, 10, 20}}

\* The keyword arguments of _setup that the model explores.
Configs ==
    { [opponent_probabilities |-> <<100, 450, 450>>, min_spawn_distance |-> 2000,
       win_distance |-> 500, reset_type |-> "none", task_choice |-> "chase"],
      [opponent_probabilities |-> <<100, 200, 300>>, min_spawn_distance |-> 2000,
       win_distance |-> 500, reset_type |-> "random", task_choice |-> "flee"],
      [opponent_probabilities |-> <<100, 450, 450>>, min_spawn_distance |-> 0,
       win_distance |-> 500, reset_type |-> "none", task_choice |-> "random"],
      [opponent_probabilities |-> <<100, 450, 450>>, min_spawn_distance |-> 20000,
       win_distance |-> 500, reset_type |-> "none", task_choice |-> "chase"] }

\* The keyword arguments of the two environments run side by side.
TwinConfigs ==
    { [opponent_probabilities |-> <<100, 450, 450>>, min_spawn_distance |-> 2000,
       win_distance |-> 500, reset_type |-> "none", task_choice |-> "chase"],
      [opponent_probabilities |-> <<100, 450, 450>>, min_spawn_distance |-> 2000,
       win_distance |-> 500, reset_type |-> "none", task_choice |-> "random"],
      [opponent_probabilities |-> <<100, 450, 450>>, min_spawn_distance |-> 2000,
       win_distance |-> 500, reset_type |-> "random", task_choice |-> "chase"] }

(***************************************************************************)
(* Program constants                                                       *)
(***************************************************************************)

Dt == 10                  \* self.dt = 0.01 (s), in ms
MaxTime == 20000          \* self.maxTime = 20 (s), in ms
ArenaClamp == 5500        \* np.clip(pose[:2], -5.5, 5.5)
VelClamp == 1000          \* np.clip(vel, -1, 1)
FallHeight == 500         \* xpos[2] < 0.5
ArenaLimit == 6500        \* np.abs(root_pos[i]) > 6.5
Pi == 3142                \* np.pi
RealLength == 12000       \* real_length = 12 (m), in mm
RoughScalar == 8000       \* scalar = .08 (m), in 1/100 mm
RoughOffset == 2000       \* offset = .02 (m), in 1/100 mm
HillyFrequency == 10      \* frequency = 10
HillyScalarLow == 3000    \* low = 0.03 (m), in 1/100 mm
HillyScalarHigh == 23000  \* high = 0.23 (m), in 1/100 mm
StaticPose == <<0, -5000, 0>>
KeyRootPos == <<0, 0>>    \* planar part of the canonical key poses
KeyHeights == {950}       \* height of the canonical key poses

\* sim.model.key_qpos: planar position, height, orientation quaternion and
\* two knee angles (in thousandths); key 0 stands, keys 2 and 3 crouch with
\* the left or the right knee flexed.
KeyQpos ==
    [k \in {0, 2, 3} |->
        IF k = 0 THEN <<0, 0, 950, 1000, 0, 0, 0, 0, 0>>
        ELSE IF k = 2 THEN <<0, 0, 870, 924, 0, 0, 383, 900, 100>>
        ELSE <<0, 0, 870, 924, 0, 0, 383, 100, 900>>]

(***************************************************************************)
(* Arithmetic                                                              *)
(***************************************************************************)

Abs(n) == IF n < 0 THEN -n ELSE n

Clip(v, lo, hi) == IF v < lo THEN lo ELSE IF v > hi THEN hi ELSE v

\* a / b rounded to the nearest integer, halves away from zero (b > 0).
RoundDiv(a, b) == IF a >= 0 THEN (2 * a + b) \div (2 * b)
                  ELSE -((2 * (-a) + b) \div (2 * b))

\* The angle a brought into (-pi, pi].
WrapAngle(a) ==
    LET m == a % (2 * Pi)
    IN  IF m > Pi THEN m - 2 * Pi ELSE m

\* 1000 * sin(x) for x in [0, pi] (Bhaskara's rational approximation).
SinHalfTurn(x) ==
    LET p == (x * (Pi - x)) \div 1000
        q == (Pi * Pi) \div 1000
    IN  (16000 * p) \div (5 * q - 4 * p)

Sin(a) ==
    LET w == WrapAngle(a)
    IN  IF w >= 0 THEN SinHalfTurn(w) ELSE -SinHalfTurn(-w)

Cos(a) == Sin(a + Pi \div 2)

DistSq(p, q) == (p[1] - q[1]) * (p[1] - q[1]) + (p[2] - q[2]) * (p[2] - q[2])

\* np.linalg.norm(p - q) < d   and   np.linalg.norm(p - q) <= d
NormLess(p, q, d) == d > 0 /\ DistSq(p, q) < d * d
NormAtMost(p, q, d) == d >= 0 /\ DistSq(p, q) <= d * d

\* np.round(t, 2): t in ms to the nearest centisecond, halves to even.
Round2(t) ==
    LET c == t \div 10
        r == t % 10
    IN  IF r > 5 \/ (r = 5 /\ c % 2 = 1) THEN c + 1 ELSE c

(***************************************************************************)
(* ChallengeOpponent                                                       *)
(***************************************************************************)

Policies == {"static_stationary", "stationary", "random"}

\* euler2quat([0, 0, angle]) and quat2euler(q)[-1]
Euler2Quat(angle) == WrapAngle(angle)
Quat2Euler(q) == q

GetOpponentPose(pos, quat) == <<pos[1], pos[2], Quat2Euler(quat)>>

\* move_opponent without line 69 (the clip of pose[:2]).
MoveOpponentUnclamped(vel, pos, quat) ==
    LET v0 == Clip(Abs(vel[1]), -VelClamp, VelClamp)
        v1 == Clip(vel[2], -VelClamp, VelClamp)
        pose == GetOpponentPose(pos, quat)
        x_vel == RoundDiv(v0 * Cos(pose[3] + Pi \div 2), 1000)
        y_vel == RoundDiv(v0 * Sin(pose[3] + Pi \div 2), 1000)
        x == pose[1] - RoundDiv(Dt * x_vel, 1000)
        y == pose[2] - RoundDiv(Dt * y_vel, 1000)
        a == pose[3] + RoundDiv(Dt * v1, 1000)
    IN  [pos |-> <<x, y>>, quat |-> Euler2Quat(a)]

\* The pose after move_opponent(vel) from the pose <<pos, quat>>.
MoveOpponent(vel, pos, quat) ==
    LET v0 == Clip(Abs(vel[1]), -VelClamp, VelClamp)
        v1 == Clip(vel[2], -VelClamp, VelClamp)
        pose == GetOpponentPose(pos, quat)
        x_vel == RoundDiv(v0 * Cos(pose[3] + Pi \div 2), 1000)
        y_vel == RoundDiv(v0 * Sin(pose[3] + Pi \div 2), 1000)
        x == pose[1] - RoundDiv(Dt * x_vel, 1000)
        y == pose[2] - RoundDiv(Dt * y_vel, 1000)
        a == pose[3] + RoundDiv(Dt * v1, 1000)
    IN  [pos |-> <<Clip(x, -ArenaClamp, ArenaClamp), Clip(y, -ArenaClamp, ArenaClamp)>>,
         quat |-> Euler2Quat(a)]

\* self.opponent_vel after move_opponent(vel): the array vel itself, whose
\* first entry line 61 overwrites in place.
StoredVel(vel) == <<Abs(vel[1]), vel[2]>>

\* The policy after sample_opponent_policy with rand_num = r.
SampleOpponentPolicy(r, p, old) ==
    IF r < p[1] THEN "static_stationary"
    ELSE IF r < p[1] + p[2] THEN "stationary"
    ELSE IF r < p[1] + p[2] + p[3] THEN "random"
    ELSE old

\* What sample_opponent_policy assigned ("none": no branch was taken).
PolicyDrawn(r, p) == SampleOpponentPolicy(r, p, "none")

\* An update_opponent_state whose 'stationary' policy moves as 'random' does.
PolicyCommandsStationaryMoves(policy) ==
    IF policy = "static_stationary" THEN {<<0, 0>>}
    ELSE IF policy = "random" \/ policy = "stationary" THEN NoiseSamples
    ELSE {}

\* The velocity commands update_opponent_state may pass to move_opponent;
\* the empty set when it raises NotImplementedError.
PolicyCommands(policy) ==
    IF policy = "stationary" \/ policy = "static_stationary" THEN {<<0, 0>>}
    ELSE IF policy = "random" THEN NoiseSamples
    ELSE {}

\* update_opponent_state with the command vel.
UpdateOpponentState(policy, vel, pos, quat, ovel) ==
    IF PolicyCommands(policy) = {}
    THEN [error |-> "NotImplementedError", pos |-> pos, quat |-> quat, vel |-> ovel]
    ELSE LET m == MoveOpponent(vel, pos, quat)
         IN  [error |-> "none", pos |-> m.pos, quat |-> m.quat, vel |-> StoredVel(vel)]

TickCommands(policy) ==
    IF PolicyCommands(policy) = {} THEN {<<0, 0>>} ELSE PolicyCommands(policy)

\* The corners of the square [-5, 5]^2 the candidates are drawn from: the
\* points of the square farthest from any root position.
SpawnCorners == {<<x, y>> : x \in {-5000, 5000}, y \in {-5000, 5000}}

\* The while loop of reset_opponent is entered at all (dist = 0 < min).
SpawnLoopEntered(min) == 0 < min

\* A loop that stops at its first candidate.
SpawnNeverRejected(pose, root, min) == FALSE

\* One more iteration is needed after drawing the candidate pose.
SpawnRejected(pose, root, min) == NormLess(<<pose[1], pose[2]>>, root, min)

\* Lines 122-125 of reset_opponent; bound: the loop assigned pose.
ResetTail(policy, bound, pose) ==
    IF policy = "unset" THEN [error |-> "AttributeError", pose |-> pose]
    ELSE IF ~bound THEN [error |-> "UnboundLocalError", pose |-> pose]
    ELSE [error |-> "none",
          pose |-> IF policy = "static_stationary" THEN StaticPose ELSE pose]

(***************************************************************************)
(* ChaseTagEnvV0: observation, reward, termination                         *)
(***************************************************************************)

GetObsDict(t, pos, quat, ovel, root) ==
    [time |-> t, opponent_pose |-> GetOpponentPose(pos, quat),
     opponent_vel |-> ovel, model_root_pos |-> root]

\* _lose_condition with "time > maxTime" for "time >= maxTime".
LoseConditionStrictTime(z, root, obs) ==
    IF z < FallHeight THEN 1
    ELSE IF obs.time > MaxTime
            \/ (Abs(root[1]) > ArenaLimit \/ Abs(root[2]) > ArenaLimit)
         THEN 1 ELSE 0

LoseCondition(z, root, obs) ==
    IF z < FallHeight THEN 1
    ELSE IF obs.time >= MaxTime
            \/ (Abs(root[1]) > ArenaLimit \/ Abs(root[2]) > ArenaLimit)
         THEN 1 ELSE 0

\* _win_condition without "and self.startFlag".
WinConditionNoFlag(root, obs, flag) ==
    IF NormAtMost(root, <<obs.opponent_pose[1], obs.opponent_pose[2]>>,
                  cfg.win_distance)
    THEN 1 ELSE 0

WinCondition(root, obs, flag) ==
    IF NormAtMost(root, <<obs.opponent_pose[1], obs.opponent_pose[2]>>,
                  cfg.win_distance) /\ flag
    THEN 1 ELSE 0

\* _get_done without its second test.
GetDoneLoseOnly(z, root, obs, flag) ==
    IF LoseCondition(z, root, obs) = 1 THEN 1 ELSE 0

GetDone(z, root, obs, flag) ==
    IF LoseCondition(z, root, obs) = 1 THEN 1
    ELSE IF WinCondition(root, obs, flag) = 1 THEN 1
    ELSE 0

\* 1 - round(time, 2) / maxTime, in units of 1 / (100 * maxTime).
GetScore(t) == MaxTime \div 10 - Round2(t)

\* get_reward_dict without "if win_cdt else 0" on the score.
GetRewardDictScoreAlways(z, root, obs, flag) ==
    [lose |-> LoseCondition(z, root, obs), sparse |-> GetScore(obs.time),
     solved |-> WinCondition(root, obs, flag), done |-> GetDone(z, root, obs, flag)]

GetRewardDict(z, root, obs, flag) ==
    LET win_cdt == WinCondition(root, obs, flag)
        lose_cdt == LoseCondition(z, root, obs)
        score == IF win_cdt = 1 THEN GetScore(obs.time) ELSE 0
    IN  [lose |-> lose_cdt, sparse |-> score, solved |-> win_cdt,
         done |-> GetDone(z, root, obs, flag)]

NoObs == [time |-> 0, opponent_pose |-> <<0, 0, 0>>, opponent_vel |-> <<0, 0>>,
          model_root_pos |-> <<0, 0>>]
NoRwd == [lose |-> 0, sparse |-> 0, solved |-> 0, done |-> 0]

\* _sample_task
SampleTask(choice) == IF choice = "random" THEN {"chase", "flee"} ELSE {choice}

\* The planar root position of the state _get_reset_state returns.
GetResetState(type) ==
    IF type = "random" THEN {<<u, u>> : u \in UniformSamples} ELSE {KeyRootPos}

(***************************************************************************)
(* The state machine                                                       *)
(***************************************************************************)

\* Inside the while loop of reset_opponent, called by the constructor, by
\* reset() or directly.
SpawnPcs == {"ctor_spawn", "reset_spawn", "call_spawn"}

PcValues == {"start", "setup", "setup_stepped", "ready", "crashed"} \cup SpawnPcs

\* No heightfield is being followed.
NoHeightField == [nrow |-> 0]

\* _get_reset_state has not been called.
NoResetState == [calls |-> 0]

\* No pair of environments is being run.
NoTwin == [seed |-> 0, episodes |-> 0, a |-> <<>>, b |-> <<>>]

\* __init__ up to the construction of the opponent: startFlag is False, the
\* model and the opponent are at the origin, no policy attribute exists.
Init ==
    /\ cfg \in Configs
    /\ pc = "start"
    /\ error = "none"
    /\ startFlag = FALSE
    /\ opponent_policy = "unset"
    /\ policy_draw = "none"
    /\ mocap_pos = <<0, 0>>
    /\ mocap_quat = 0
    /\ opponent_vel = <<0, 0>>
    /\ spawn_pose = <<0, 0, 0>>
    /\ root_pos = <<0, 0>>
    /\ pelvis_z \in AgentHeights
    /\ time = 0
    /\ current_task = "none"
    /\ obs_dict = NoObs
    /\ rwd_dict = NoRwd
    /\ nsteps = 0
    /\ last_op = "none"
    /\ twin = NoTwin
    /\ heightfield = NoHeightField
    /\ reset_state = NoResetState

\* reset_opponent from its first line to the head of the while loop, and on
\* to its end when the loop is not entered.  loop: the pc inside the while
\* loop; after, failed: the pc once it returns, or raises.
BeginResetOpponent(r, loop, after, failed) ==
    LET policy == SampleOpponentPolicy(r, cfg.opponent_probabilities, opponent_policy)
        tail == ResetTail(policy, FALSE, <<0, 0, 0>>)
    IN  /\ opponent_vel' = <<0, 0>>
        /\ opponent_policy' = policy
        /\ policy_draw' = PolicyDrawn(r, cfg.opponent_probabilities)
        /\ IF SpawnLoopEntered(cfg.min_spawn_distance)
           THEN /\ pc' = loop
                /\ error' = "none"
           ELSE /\ pc' = IF tail.error = "none" THEN after ELSE failed
                /\ error' = tail.error
        /\ UNCHANGED <<mocap_pos, mocap_quat, spawn_pose>>

\* _setup, line 321: ChallengeOpponent(...) runs reset_opponent.
ConstructOpponent ==
    /\ pc = "start"
    /\ \E r \in RandNums : BeginResetOpponent(r, "ctor_spawn", "setup", "crashed")
    /\ last_op' = "construct"
    /\ UNCHANGED <<cfg, startFlag, root_pos, pelvis_z, time, current_task,
                   obs_dict, rwd_dict, nsteps>>
    /\ UNCHANGED auxVars

\* One iteration of the while loop whose candidate is too close.
SpawnRetry ==
    /\ pc \in SpawnPcs
    /\ \E x \in SpawnCoords, y \in SpawnCoords, a \in SpawnAngles :
          SpawnRejected(<<x, y, a>>, root_pos, cfg.min_spawn_distance)
    /\ UNCHANGED vars

\* The last iteration of the while loop and the rest of reset_opponent.
SpawnAccept ==
    /\ pc \in SpawnPcs
    /\ \E x \in SpawnCoords, y \in SpawnCoords, a \in SpawnAngles :
          /\ ~SpawnRejected(<<x, y, a>>, root_pos, cfg.min_spawn_distance)
          /\ LET tail == ResetTail(opponent_policy, TRUE, <<x, y, a>>)
                 after == IF pc = "reset_spawn" THEN "ready" ELSE "setup"
                 failed == IF pc = "ctor_spawn" THEN "crashed" ELSE after
             IN  IF tail.error = "none"
                 THEN /\ mocap_pos' = <<tail.pose[1], tail.pose[2]>>
                      /\ mocap_quat' = Euler2Quat(tail.pose[3])
                      /\ spawn_pose' = tail.pose
                      /\ pc' = after
                      /\ error' = "none"
                 ELSE /\ pc' = failed
                      /\ error' = tail.error
                      /\ UNCHANGED <<mocap_pos, mocap_quat, spawn_pose>>
    /\ opponent_vel' = <<0, 0>>
    /\ last_op' = "reset_opponent"
    /\ UNCHANGED <<cfg, startFlag, opponent_policy, policy_draw, root_pos,
                   pelvis_z, time, current_task, obs_dict, rwd_dict, nsteps>>
    /\ UNCHANGED auxVars

\* A step() that lets the base class build the observation and the reward
\* first and ticks the opponent last.
StepBodyTickLast(flag) ==
    \E vel \in TickCommands(opponent_policy), root \in AgentPositions,
       z \in AgentHeights, t \in TimeSamples :
        LET u == UpdateOpponentState(opponent_policy, vel, mocap_pos,
                                     mocap_quat, opponent_vel)
            obs == GetObsDict(t, mocap_pos, mocap_quat, opponent_vel, root)
        IN  /\ t > time
            /\ mocap_pos' = u.pos
            /\ mocap_quat' = u.quat
            /\ opponent_vel' = u.vel
            /\ error' = u.error
            /\ IF u.error = "none"
               THEN /\ root_pos' = root
                    /\ pelvis_z' = z
                    /\ time' = t
                    /\ obs_dict' = obs
                    /\ rwd_dict' = GetRewardDict(z, root, obs, flag)
               ELSE UNCHANGED <<root_pos, pelvis_z, time, obs_dict, rwd_dict>>

\* step(): the opponent tick, the physics advance, then the observation and
\* the reward of the new state.
StepBody(flag) ==
    \E vel \in TickCommands(opponent_policy), root \in AgentPositions,
       z \in AgentHeights, t \in TimeSamples :
        LET u == UpdateOpponentState(opponent_policy, vel, mocap_pos,
                                     mocap_quat, opponent_vel)
            obs == GetObsDict(t, u.pos, u.quat, u.vel, root)
        IN  /\ t > time
            /\ mocap_pos' = u.pos
            /\ mocap_quat' = u.quat
            /\ opponent_vel' = u.vel
            /\ error' = u.error
            /\ IF u.error = "none"
               THEN /\ root_pos' = root
                    /\ pelvis_z' = z
                    /\ time' = t
                    /\ obs_dict' = obs
                    /\ rwd_dict' = GetRewardDict(z, root, obs, flag)
               ELSE UNCHANGED <<root_pos, pelvis_z, time, obs_dict, rwd_dict>>

\* _setup, line 323: the base class's _setup takes one step of the
\* environment while startFlag is still False.
SetupStep ==
    /\ pc = "setup"
    /\ StepBody(startFlag)
    /\ pc' = "setup_stepped"
    /\ last_op' = "step"
    /\ UNCHANGED <<cfg, startFlag, opponent_policy, policy_draw, spawn_pose,
                   current_task, nsteps>>
    /\ UNCHANGED auxVars

\* _setup, lines 328-330.
FinishSetup ==
    /\ pc = "setup_stepped"
    /\ startFlag' = TRUE
    /\ pc' = "ready"
    /\ last_op' = "setup"
    /\ UNCHANGED <<cfg, error, opponent_policy, policy_draw, mocap_pos, mocap_quat,
                   opponent_vel, spawn_pose, root_pos, pelvis_z, time,
                   current_task, obs_dict, rwd_dict, nsteps>>
    /\ UNCHANGED auxVars

Step ==
    /\ pc = "ready"
    /\ nsteps < MaxSteps
    /\ StepBody(startFlag)
    /\ nsteps' = nsteps + 1
    /\ last_op' = "step"
    /\ UNCHANGED <<cfg, pc, startFlag, opponent_policy, policy_draw, spawn_pose,
                   current_task>>
    /\ UNCHANGED auxVars

\* A reset() that resets the opponent before the reset state is applied to
\* the simulation: the agent is still where the last episode left it.
ResetOpponentFirst ==
    /\ pc = "ready"
    /\ \E task \in SampleTask(cfg.task_choice), r \in RandNums :
          /\ current_task' = task
          /\ time' = 0
          /\ obs_dict' = GetObsDict(0, mocap_pos, mocap_quat, opponent_vel, root_pos)
          /\ BeginResetOpponent(r, "reset_spawn", "ready", "ready")
    /\ nsteps' = 0
    /\ last_op' = "reset"
    /\ UNCHANGED <<cfg, startFlag, rwd_dict, root_pos, pelvis_z>>
    /\ UNCHANGED auxVars

\* reset(): task, reset state, the base class's reset (time 0, the reset
\* state applied, the observation rebuilt), then reset_opponent.
Reset ==
    /\ pc = "ready"
    /\ \E task \in SampleTask(cfg.task_choice),
          root \in GetResetState(cfg.reset_type),
          z \in KeyHeights, r \in RandNums :
          /\ current_task' = task
          /\ root_pos' = root
          /\ pelvis_z' = z
          /\ time' = 0
          /\ obs_dict' = GetObsDict(0, mocap_pos, mocap_quat, opponent_vel, root)
          /\ BeginResetOpponent(r, "reset_spawn", "ready", "ready")
    /\ nsteps' = 0
    /\ last_op' = "reset"
    /\ UNCHANGED <<cfg, startFlag, rwd_dict>>
    /\ UNCHANGED auxVars

Next ==
    \/ ConstructOpponent
    \/ SpawnRetry
    \/ SpawnAccept
    \/ SetupStep
    \/ FinishSetup
    \/ Step
    \/ Reset

Spec == Init /\ [][Next]_vars

(***************************************************************************)
(* The opponent driven on its own: a caller that holds the ChallengeOpponent*)
(* object calls its operations directly (pc stays "setup": the opponent is *)
(* built and idle, the environment is not stepped).                        *)
(***************************************************************************)

\* update_opponent_state() called directly.
Tick ==
    /\ pc = "setup"
    /\ nsteps < MaxSteps
    /\ \E vel \in TickCommands(opponent_policy) :
          LET u == UpdateOpponentState(opponent_policy, vel, mocap_pos,
                                       mocap_quat, opponent_vel)
          IN  /\ mocap_pos' = u.pos
              /\ mocap_quat' = u.quat
              /\ opponent_vel' = u.vel
              /\ error' = u.error
    /\ nsteps' = nsteps + 1
    /\ last_op' = "tick"
    /\ UNCHANGED <<cfg, pc, startFlag, opponent_policy, policy_draw, spawn_pose,
                   root_pos, pelvis_z, time, current_task, obs_dict, rwd_dict>>
    /\ UNCHANGED auxVars

\* reset_opponent(rng) called directly.
ResetOpponent ==
    /\ pc = "setup"
    /\ \E r \in RandNums : BeginResetOpponent(r, "call_spawn", "setup", "setup")
    /\ nsteps' = 0
    /\ last_op' = "reset"
    /\ UNCHANGED <<cfg, startFlag, root_pos, pelvis_z, time, current_task,
                   obs_dict, rwd_dict>>
    /\ UNCHANGED auxVars

\* set_opponent_pose(pose) called directly.
SetOpponentPose ==
    /\ pc = "setup"
    /\ \E pose \in TeleportPoses :
          /\ mocap_pos' = <<pose[1], pose[2]>>
          /\ mocap_quat' = Euler2Quat(pose[3])
    /\ last_op' = "set_opponent_pose"
    /\ UNCHANGED <<cfg, pc, error, startFlag, opponent_policy, policy_draw,
                   opponent_vel, spawn_pose, root_pos, pelvis_z, time,
                   current_task, obs_dict, rwd_dict, nsteps>>
    /\ UNCHANGED auxVars

OpponentNext ==
    \/ ConstructOpponent
    \/ SpawnRetry
    \/ SpawnAccept
    \/ Tick
    \/ ResetOpponent
    \/ SetOpponentPose

SpecOpponent == Init /\ [][OpponentNext]_vars

TypeOK ==
    /\ cfg \in Configs \cup TwinConfigs
    /\ pc \in PcValues
    /\ error \in {"none", "AttributeError", "UnboundLocalError", "NotImplementedError"}
    /\ startFlag \in BOOLEAN
    /\ opponent_policy \in Policies \cup {"unset"}
    /\ policy_draw \in Policies \cup {"none"}
    /\ nsteps \in 0..MaxSteps
    /\ rwd_dict.lose \in {0, 1} /\ rwd_dict.solved \in {0, 1} /\ rwd_dict.done \in {0, 1}

(***************************************************************************)
(* Two environments side by side.  Both are built with the same keyword    *)
(* arguments and the same seed and receive the same calls.  self.np_random *)
(* is a seeded generator: its k-th variate is a function of the seed and   *)
(* of k.  The generator of the numpy module (np.random) belongs to the     *)
(* process and is not seeded by the environment: what it returns in one    *)
(* run says nothing about what it returns in the other.                    *)
(***************************************************************************)

\* The k-th variate of the generator seeded with seed, in thousandths.
Variate(seed, k) == (seed * 131 + k * k * 37 + k * 389 + 217) % 1000

\* rng.uniform(-5, 5) and rng.uniform(-2*pi, 2*pi) from a variate.
SpawnCoord(u) == 10 * u - 5000
SpawnAngle(u) == (4 * Pi * u) \div 1000 - 2 * Pi

\* noise_process.sample() from two variates: scale 10 makes samples beyond
\* 1 in magnitude common.
NoiseOf(seed, k) == <<6 * Variate(seed, k) - 3000, 6 * Variate(seed, k + 1) - 3000>>

\* The while loop of reset_opponent fed by the seeded generator from its
\* k-th variate on; n: iterations still followed.
RECURSIVE SpawnSearch(_, _, _, _, _)
SpawnSearch(seed, k, root, min, n) ==
    LET pose == <<SpawnCoord(Variate(seed, k)), SpawnCoord(Variate(seed, k + 1)),
                  SpawnAngle(Variate(seed, k + 2))>>
    IN  IF ~SpawnRejected(pose, root, min)
        THEN [found |-> TRUE, pose |-> pose, drawn |-> k + 3]
        ELSE IF n <= 1 THEN [found |-> FALSE, pose |-> pose, drawn |-> k + 3]
        ELSE SpawnSearch(seed, k + 3, root, min, n - 1)

\* reset_opponent(rng) of one run: the noise process is rebuilt from the
\* generator, the policy is drawn, the spawn loop runs, the pose is written.
RunResetOpponent(run, seed, root) ==
    LET k == run.drawn + 1
        policy == SampleOpponentPolicy(Variate(seed, k), cfg.opponent_probabilities,
                                       run.policy)
        search == IF SpawnLoopEntered(cfg.min_spawn_distance)
                  THEN SpawnSearch(seed, k + 1, root, cfg.min_spawn_distance,
                                   MaxAttempts)
                  ELSE [found |-> FALSE, pose |-> run.pose, drawn |-> k + 1]
        tail == ResetTail(policy, SpawnLoopEntered(cfg.min_spawn_distance),
                          search.pose)
    IN  [run EXCEPT !.policy = policy,
                    !.pose = IF tail.error = "none"
                             THEN GetOpponentPose(<<tail.pose[1], tail.pose[2]>>,
                                                  Euler2Quat(tail.pose[3]))
                             ELSE run.pose,
                    !.vel = <<0, 0>>,
                    !.error = tail.error,
                    !.returned = search.found \/ tail.error # "none",
                    !.drawn = search.drawn]

\* The environment of one run once built: the opponent was reset with the
\* agent at the key pose.
ConstructRun(seed) ==
    RunResetOpponent([task |-> "none", key |-> 0, root |-> KeyRootPos,
                      policy |-> "unset", pose |-> <<0, 0, 0>>, vel |-> <<0, 0>>,
                      error |-> "none", returned |-> TRUE, drawn |-> 0],
                     seed, KeyRootPos)

\* reset() of one run.  task and root come from _sample_task and
\* _get_reset_state, which read np.random where they draw; the key pose of
\* _get_randomized_initial_state and its noise come from self.np_random.
RunReset(run, seed, task, root) ==
    LET random == cfg.reset_type = "random"
        key == IF random THEN (IF Variate(seed, run.drawn) < 500 THEN 2 ELSE 3)
               ELSE IF cfg.reset_type = "init" THEN 2 ELSE 0
        drawn == IF random THEN run.drawn + 2 ELSE run.drawn
    IN  RunResetOpponent([run EXCEPT !.task = task, !.key = key, !.root = root,
                                     !.drawn = drawn],
                         seed, root)

\* The opponent tick of step() of one run.
RunTick(run, seed) ==
    LET random == run.policy = "random"
        vel == IF random THEN NoiseOf(seed, run.drawn) ELSE <<0, 0>>
        u == UpdateOpponentState(run.policy, vel, <<run.pose[1], run.pose[2]>>,
                                 Euler2Quat(run.pose[3]), run.vel)
    IN  [run EXCEPT !.pose = GetOpponentPose(u.pos, u.quat),
                    !.vel = u.vel,
                    !.error = u.error,
                    !.drawn = IF random THEN run.drawn + 2 ELSE run.drawn]

\* The environment idle at its initial values, whatever the specification
\* that leaves it alone.
EnvUntouched ==
    /\ pc = "start" /\ error = "none" /\ startFlag = FALSE
    /\ opponent_policy = "unset" /\ policy_draw = "none"
    /\ mocap_pos = <<0, 0>> /\ mocap_quat = 0 /\ opponent_vel = <<0, 0>>
    /\ spawn_pose = <<0, 0, 0>> /\ root_pos = <<0, 0>> /\ pelvis_z = 950
    /\ time = 0 /\ current_task = "none"
    /\ obs_dict = NoObs /\ rwd_dict = NoRwd
    /\ nsteps = 0 /\ last_op = "none"

InitTwin ==
    /\ cfg \in TwinConfigs
    /\ EnvUntouched
    /\ \E seed \in Seeds :
          twin = [seed |-> seed, episodes |-> 0,
                  a |-> ConstructRun(seed), b |-> ConstructRun(seed)]
    /\ heightfield = NoHeightField
    /\ reset_state = NoResetState

\* Both environments are reset.
TwinReset ==
    /\ twin.episodes < MaxEpisodes
    /\ \E ta \in SampleTask(cfg.task_choice), tb \in SampleTask(cfg.task_choice),
          ra \in GetResetState(cfg.reset_type), rb \in GetResetState(cfg.reset_type) :
          LET a == RunReset(twin.a, twin.seed, ta, ra)
              b == RunReset(twin.b, twin.seed, tb, rb)
          IN  /\ a.returned /\ b.returned
              /\ twin' = [twin EXCEPT !.episodes = twin.episodes + 1,
                                      !.a = a, !.b = b]
    /\ nsteps' = 0
    /\ last_op' = "reset"
    /\ UNCHANGED <<cfg, pc, error, startFlag, opponent_policy, policy_draw,
                   mocap_pos, mocap_quat, opponent_vel, spawn_pose, root_pos,
                   pelvis_z, time, current_task, obs_dict, rwd_dict, heightfield,
                   reset_state>>

\* Both environments take a step with the same action.
TwinStep ==
    /\ nsteps < MaxSteps
    /\ twin' = [twin EXCEPT !.a = RunTick(twin.a, twin.seed),
                            !.b = RunTick(twin.b, twin.seed)]
    /\ nsteps' = nsteps + 1
    /\ last_op' = "step"
    /\ UNCHANGED <<cfg, pc, error, startFlag, opponent_policy, policy_draw,
                   mocap_pos, mocap_quat, opponent_vel, spawn_pose, root_pos,
                   pelvis_z, time, current_task, obs_dict, rwd_dict, heightfield,
                   reset_state>>

TwinNext ==
    \/ TwinReset
    \/ TwinStep

SpecTwin == InitTwin /\ [][TwinNext]_vars

(***************************************************************************)
(* HeightField: the terrain generator and the window the agent observes.   *)
(* Heights are in 1/100 mm (0.08 m -> 8000).  The heightfield is square    *)
(* (nrow = ncol); cell <<r, c>> is hfield.data[r, c], and the first        *)
(* coordinate of a position indexes the first axis, as cart2map has it.    *)
(* The generator self.rng is the seeded generator of the environment: its  *)
(* k-th variate is Variate(seed, k).                                       *)
(***************************************************************************)

AvailableTerrainTypes == <<"flat", "rough", "hilly">>

\* The cells of an n x n array.
Cells(n) == (0..(n - 1)) \X (0..(n - 1))

SetMin(S) == CHOOSE x \in S : \A y \in S : x <= y
SetMax(S) == CHOOSE x \in S : \A y \in S : x >= y

\* int(v) for the quotient v = a / b (b > 0): truncation towards zero.
IntDiv(a, b) == IF a >= 0 THEN a \div b ELSE -((-a) \div b)

\* self.patch_size = int(self.nrow / patches_per_side)
PatchSize(nrow, patches) == IntDiv(nrow, patches)

\* rng.choice(available_terrain_types) from a variate.
RngChoice(u) == AvailableTerrainTypes[(3 * u) \div 1000 + 1]

\* np.nan, held as a value that lies in no range a height is compared with.
NaN == -1000000

\* (d - min) / (max - min) in thousandths; 0 / 0 is nan.
Normalized(d, lo, hi) == IF hi = lo THEN NaN ELSE RoundDiv(1000 * (d - lo), hi - lo)

\* normalized_data * scalar, in 1/100 mm.
Scaled(n, scalar) == IF n = NaN THEN NaN ELSE RoundDiv(n * scalar, 1000)

\* _compute_rough_terrain without "- offset".
ComputeRoughTerrainNoOffset(ps, seed, k) ==
    LET rough == [c \in Cells(ps) |-> Variate(seed, k + c[1] * ps + c[2]) - 500]
        lo == SetMin({rough[c] : c \in Cells(ps)})
        hi == SetMax({rough[c] : c \in Cells(ps)})
    IN  [data |-> [c \in Cells(ps) |-> Scaled(Normalized(rough[c], lo, hi), RoughScalar)],
         scalar |-> RoughScalar, rotated |-> FALSE, drawn |-> k + ps * ps]

\* _compute_rough_terrain with the generator at its k-th variate.
ComputeRoughTerrain(ps, seed, k) ==
    LET rough == [c \in Cells(ps) |-> Variate(seed, k + c[1] * ps + c[2]) - 500]
        lo == SetMin({rough[c] : c \in Cells(ps)})
        hi == SetMax({rough[c] : c \in Cells(ps)})
        value(c) == LET v == Scaled(Normalized(rough[c], lo, hi), RoughScalar)
                    IN  IF v = NaN THEN NaN ELSE v - RoughOffset
    IN  [data |-> [c \in Cells(ps) |-> value(c)],
         scalar |-> RoughScalar, rotated |-> FALSE, drawn |-> k + ps * ps]

\* np.linspace(0, frequency * np.pi, n)[i], in mrad.
Linspace(i, n) == IF n = 1 THEN 0 ELSE (HillyFrequency * Pi * i) \div (n - 1)

\* _compute_hilly_terrain with the generator at its k-th variate.
ComputeHillyTerrain(ps, seed, k) ==
    LET n == ps * ps
        scalar == HillyScalarLow
                    + ((HillyScalarHigh - HillyScalarLow) * Variate(seed, k)) \div 1000
        data == [i \in 0..(n - 1) |-> Sin(Linspace(i, n) + Pi \div 2) - 1000]
        lo == SetMin({data[i] : i \in 0..(n - 1)})
        hi == SetMax({data[i] : i \in 0..(n - 1)})
        \* reshape(ps, ps) * scalar
        shaped == [c \in Cells(ps) |->
                      Scaled(Normalized(data[c[1] * ps + c[2]], lo, hi), scalar)]
        \* np.flip(..., [0, 1])
        flipped == [c \in Cells(ps) |-> shaped[<<ps - 1 - c[1], ps - 1 - c[2]>>]]
        rotated == Variate(seed, k + 1) < 500
        \* np.rot90(m)[r, c] = m[c, ps - 1 - r]
        rot90 == [c \in Cells(ps) |-> flipped[<<c[2], ps - 1 - c[1]>>]]
    IN  [data |-> IF rotated THEN rot90 ELSE flipped,
         scalar |-> scalar, rotated |-> rotated, drawn |-> k + 2]

\* _compute_patch_data
ComputePatchData(terrain_type, ps, seed, k) ==
    IF terrain_type = "flat"
    THEN [data |-> [c \in Cells(ps) |-> 0], scalar |-> 0, rotated |-> FALSE,
          drawn |-> k]
    ELSE IF terrain_type = "rough" THEN ComputeRoughTerrain(ps, seed, k)
    ELSE ComputeHillyTerrain(ps, seed, k)

\* The cells of hfield.data that _fill_patch(i, j, ...) assigns.
PatchCells(i, j, ps) ==
    ((i * ps)..(i * ps + ps - 1)) \X ((j * ps)..(j * ps + ps - 1))

\* _fill_patch(i, j, terrain_type): hf after the assignment.
FillPatch(hf, i, j, terrain_type) ==
    LET ps == hf.patch_size
        patch == ComputePatchData(terrain_type, ps, hf.seed, hf.drawn)
        cells == PatchCells(i, j, ps) \cap Cells(hf.nrow)
    IN  [hf EXCEPT
            !.data = [c \in Cells(hf.nrow) |->
                         IF c \in cells THEN patch.data[<<c[1] - i * ps, c[2] - j * ps>>]
                         ELSE hf.data[c]],
            !.drawn = patch.drawn,
            !.written = hf.written \cup cells,
            !.patches = hf.patches \cup
                           {[i |-> i, j |-> j, type |-> terrain_type,
                             scalar |-> patch.scalar, rotated |-> patch.rotated]}]

\* _populate_patches from its n-th patch on (i outer, j inner).
RECURSIVE PopulateFrom(_, _)
PopulateFrom(hf, n) ==
    IF n >= hf.patches_per_side * hf.patches_per_side THEN hf
    ELSE LET i == n \div hf.patches_per_side
             j == n % hf.patches_per_side
             terrain_type == RngChoice(Variate(hf.seed, hf.drawn))
         IN  PopulateFrom(FillPatch([hf EXCEPT !.drawn = hf.drawn + 1],
                                    i, j, terrain_type),
                          n + 1)

\* _populate_patches; written and patches record what this call assigned.
PopulatePatches(hf) == PopulateFrom([hf EXCEPT !.written = {}, !.patches = {}], 0)

\* cart2map with offsets of half the heightfield, not half the padded map.
Cart2MapUnpadded(pos, nrow) ==
    <<IntDiv(2 * pos[1] * nrow + nrow * RealLength, 2 * RealLength),
      IntDiv(2 * pos[2] * nrow + nrow * RealLength, 2 * RealLength)>>

\* cart2map
Cart2Map(pos, nrow) ==
    <<IntDiv(pos[1] * nrow + nrow * RealLength, RealLength),
      IntDiv(pos[2] * nrow + nrow * RealLength, RealLength)>>

\* The slice [start : stop] of an axis of length n, as Python resolves it:
\* a negative bound counts from the end, bounds are clamped to the axis.
PySlice(start, stop, n) ==
    LET bound(b) == IF b < 0 THEN (IF b + n < 0 THEN 0 ELSE b + n)
                    ELSE IF b > n THEN n ELSE b
        lo == bound(start)
        hi == bound(stop)
    IN  [lo |-> lo, len |-> IF hi > lo THEN hi - lo ELSE 0]

\* An axis of length len can be assigned to an axis of length n.
Broadcasts(len, n) == len = n \/ len = 1

\* sample(): hf after the call.
Sample(hf) ==
    LET pop == PopulatePatches(hf)
        n == hf.nrow
        rows == PySlice(IntDiv(n, 2), IntDiv(n + 2 * n, 2), 2 * n)
        cols == PySlice(IntDiv(n, 2), IntDiv(n + 2 * n, 2), 2 * n)
    IN  IF rows.len # n \/ cols.len # n
        THEN [pop EXCEPT !.error = "ValueError"]
        ELSE [pop EXCEPT
                 !.padded_map =
                     [c \in Cells(2 * n) |->
                         IF /\ rows.lo <= c[1] /\ c[1] < rows.lo + n
                            /\ cols.lo <= c[2] /\ c[2] < cols.lo + n
                         THEN pop.data[<<c[1] - rows.lo, c[2] - cols.lo>>]
                         ELSE hf.padded_map[c]],
                 !.regens = hf.regens + 1,
                 !.error = "none"]

\* get_heightmap_obs() with the agent at pos: hf after the call; obs holds
\* what the call computed and returned.
GetHeightmapObs(hf, pos) ==
    LET v == hf.view_distance
        map_pos == Cart2Map(pos, hf.nrow)
        spacing == IntDiv(v, 2)
        rows == PySlice(map_pos[1] - spacing, map_pos[1] + spacing, 2 * hf.nrow)
        cols == PySlice(map_pos[2] - spacing, map_pos[2] + spacing, 2 * hf.nrow)
        ok == Broadcasts(rows.len, v) /\ Broadcasts(cols.len, v)
        window == [c \in Cells(v) |->
                      hf.padded_map[<<rows.lo + (IF rows.len = 1 THEN 0 ELSE c[1]),
                                      cols.lo + (IF cols.len = 1 THEN 0 ELSE c[2])>>]]
    IN  [hf EXCEPT
            !.heightmap_window = IF ok THEN window ELSE hf.heightmap_window,
            !.error = IF ok THEN "none" ELSE "ValueError",
            !.obs = [called |-> TRUE, pos |-> pos, map_pos |-> map_pos,
                     start |-> <<map_pos[1] - spacing, map_pos[2] - spacing>>,
                     stop |-> <<map_pos[1] + spacing, map_pos[2] + spacing>>,
                     shape |-> <<rows.len, cols.len>>,
                     returned |-> IF ok
                                  THEN [k \in 1..(v * v) |->
                                           window[<<(k - 1) \div v, (k - 1) % v>>]]
                                  ELSE <<>>]]

\* get_heightmap_obs has not been called since the last regeneration.
NoWindowObs ==
    [called |-> FALSE, pos |-> <<0, 0>>, map_pos |-> <<0, 0>>, start |-> <<0, 0>>,
     stop |-> <<0, 0>>, shape |-> <<0, 0>>, returned |-> <<>>]

\* HeightField.__init__ on a heightfield of the model file (all zeros).
\* heightmap_window holds the zeros that the first get_heightmap_obs
\* allocates.
ConstructHeightField(c, seed) ==
    PopulatePatches(
        [nrow |-> c.nrow, patches_per_side |-> c.patches_per_side,
         view_distance |-> c.view_distance,
         patch_size |-> PatchSize(c.nrow, c.patches_per_side),
         seed |-> seed, drawn |-> 0,
         data |-> [x \in Cells(c.nrow) |-> 0],
         padded_map |-> [x \in Cells(2 * c.nrow) |-> 0],
         heightmap_window |-> [x \in Cells(c.view_distance) |-> 0],
         written |-> {}, patches |-> {}, regens |-> 0,
         error |-> "none", obs |-> NoWindowObs])

InitTerrain ==
    /\ cfg \in TwinConfigs
    /\ EnvUntouched
    /\ twin = NoTwin
    /\ reset_state = NoResetState
    /\ \E c \in HeightFieldConfigs, seed \in Seeds :
          heightfield = ConstructHeightField(c, seed)

\* _maybe_sample_terrain with a terrain other than 'flat'.
SampleTerrain ==
    /\ heightfield.regens < MaxRegens
    /\ heightfield' = [Sample(heightfield) EXCEPT !.obs = NoWindowObs]
    /\ UNCHANGED <<envVars, twin, reset_state>>

\* get_obs_dict with terrain 'random': the window around the agent.
ObserveTerrain ==
    /\ \E pos \in WindowPositions : heightfield' = GetHeightmapObs(heightfield, pos)
    /\ UNCHANGED <<envVars, twin, reset_state>>

TerrainNext ==
    \/ SampleTerrain
    \/ ObserveTerrain

SpecTerrain == InitTerrain /\ [][TerrainNext]_vars

(***************************************************************************)
(* The reset state.  A pose qpos is the sequence of its components:        *)
(* qpos[0:2] is the planar position, qpos[2] the height, qpos[3:7] the     *)
(* orientation quaternion (Python indices; the sequences here start at 1). *)
(***************************************************************************)

\* _get_randomized_initial_state with np_random.uniform() = u and
\* np_random.normal(...) = noise; key_qpos is sim.model.key_qpos.
\* rot_state = qpos[3:7] is a view of qpos, not a copy: it is read when
\* line 495 assigns it back, after line 494 has written the noisy values
\* into qpos.  height = qpos[2] is a scalar, a copy.
GetRandomizedInitialState(key_qpos, u, noise) ==
    LET key == IF u < 500 THEN 2 ELSE 3
        copy == key_qpos[key]
        height == copy[3]
        noisy == [i \in 1..Len(copy) |-> copy[i] + noise[i]]
        rot_state == [i \in 4..7 |-> noisy[i]]
        qpos == [i \in 1..Len(copy) |->
                    IF i \in 4..7 THEN rot_state[i]
                    ELSE IF i = 3 THEN height
                    ELSE noisy[i]]
    IN  [key |-> key, qpos |-> qpos, key_qpos |-> key_qpos]

\* _randomize_position_orientation with np.random.uniform(-6, 6) = g.
RandomizePositionOrientation(qpos, g) ==
    [i \in 1..Len(qpos) |-> IF i \in 1..2 THEN g ELSE qpos[i]]

InitResetState ==
    /\ cfg \in TwinConfigs
    /\ EnvUntouched
    /\ twin = NoTwin
    /\ heightfield = NoHeightField
    /\ reset_state = [calls |-> 0, key_qpos |-> KeyQpos, key |-> 0, noise |-> <<>>,
                      initial |-> <<>>, qpos |-> <<>>]

\* _get_reset_state()
GetResetStateCall ==
    /\ \E u \in KeyDraws, noise \in NoiseVectors, g \in UniformSamples :
          LET r == GetRandomizedInitialState(reset_state.key_qpos, u, noise)
          IN  reset_state' =
                 IF cfg.reset_type = "random"
                 THEN [calls |-> 1, key_qpos |-> r.key_qpos, key |-> r.key,
                       noise |-> noise, initial |-> r.qpos,
                       qpos |-> RandomizePositionOrientation(r.qpos, g)]
                 ELSE LET key == IF cfg.reset_type = "init" THEN 2 ELSE 0
                      IN  [calls |-> 1, key_qpos |-> reset_state.key_qpos,
                           key |-> key, noise |-> <<>>, initial |-> <<>>,
                           qpos |-> reset_state.key_qpos[key]]
    /\ UNCHANGED <<envVars, twin, heightfield>>

ResetStateNext == GetResetStateCall

SpecResetState == InitResetState /\ [][ResetStateNext]_vars

(***************************************************************************)
(* Properties                                                              *)
(***************************************************************************)

\* The opponent exists and no reset_opponent is in progress.
OpponentIdle == pc \in {"setup", "setup_stepped", "ready"}

\* The last call was a step() that returned.
AfterStep == last_op = "step" /\ error = "none"

\* The last call was a reset_opponent that returned normally.
AfterResetOpponent == last_op = "reset_opponent" /\ error = "none" /\ OpponentIdle

\* C1: once the opponent has been reset, and after every tick, reset and
\* teleport that follows, its planar position is within [-5.5, 5.5] on both
\* axes.
C1_ClampInvariant ==
    (OpponentIdle \/ pc \in SpawnPcs \ {"ctor_spawn"}) =>
        /\ -5500 <= mocap_pos[1] /\ mocap_pos[1] <= 5500
        /\ -5500 <= mocap_pos[2] /\ mocap_pos[2] <= 5500

\* A tick moved the opponent at full speed and the clamp held it at x = 5.5.
C1_Witness ==
    /\ last_op = "tick" /\ error = "none"
    /\ opponent_policy = "random"
    /\ opponent_vel[1] >= 1000
    /\ mocap_pos[1] = 5500

\* C2: when reset_opponent returns with a policy other than
\* static_stationary, the pose it wrote is at least min_spawn_distance away
\* from the agent's root.
C2_SpawnDistance ==
    (AfterResetOpponent /\ opponent_policy # "static_stationary") =>
        /\ mocap_pos = <<spawn_pose[1], spawn_pose[2]>>
        /\ DistSq(mocap_pos, root_pos)
              >= cfg.min_spawn_distance * cfg.min_spawn_distance

\* reset() placed the agent at (1.5, 1.5), where some candidates are too
\* close, and the opponent reset returned with the random policy.
C2_Witness ==
    /\ AfterResetOpponent /\ pc = "ready"
    /\ opponent_policy = "random"
    /\ root_pos = <<1500, 1500>>
    /\ cfg.min_spawn_distance = 2000

\* C3: whenever reset_opponent ends with the policy static_stationary, the
\* opponent's pose is (0, -5, 0), whatever min_spawn_distance is.
C3_StaticOverride ==
    (/\ last_op \in {"construct", "reset", "reset_opponent"}
     /\ pc \notin SpawnPcs
     /\ opponent_policy = "static_stationary") =>
        GetOpponentPose(mocap_pos, mocap_quat) = <<0, -5000, 0>>

\* C4: while startFlag is False no termination flag is 1.
C4_NoTerminationInSetup ==
    ~startFlag => (rwd_dict.done = 0 /\ rwd_dict.solved = 0 /\ rwd_dict.lose = 0)

\* C5: after every step the lose flag is 1 exactly when the torso is below
\* 0.5, or the time is at least 20 s, or |x| or |y| of the agent exceeds 6.5;
\* otherwise it is 0.
C5_LoseFlag ==
    AfterStep =>
        /\ rwd_dict.lose \in {0, 1}
        /\ rwd_dict.lose = 1 <=>
              \/ pelvis_z < 500
              \/ time >= 20000
              \/ root_pos[1] > 6500 \/ root_pos[1] < -6500
              \/ root_pos[2] > 6500 \/ root_pos[2] < -6500

\* A step at exactly 20 s, upright and inside the arena, lost.
C5_Witness ==
    /\ AfterStep /\ startFlag
    /\ time = 20000 /\ pelvis_z >= 500
    /\ root_pos = <<0, -4500>>
    /\ rwd_dict.lose = 1

\* C6: after every step the win flag is 1 exactly when the agent is within
\* win_distance of the opponent and startFlag is True.
C6_WinFlag ==
    AfterStep =>
        /\ rwd_dict.solved \in {0, 1}
        /\ rwd_dict.solved = 1 <=>
              /\ DistSq(root_pos, mocap_pos) <= cfg.win_distance * cfg.win_distance
              /\ startFlag

\* A step won at exactly win_distance while fleeing, fallen and out of time.
C6_Witness ==
    /\ AfterStep
    /\ rwd_dict.solved = 1 /\ rwd_dict.lose = 1
    /\ current_task = "flee"
    /\ time = 20000 /\ pelvis_z < 500
    /\ DistSq(root_pos, mocap_pos) = 500 * 500

\* C7: after every step done is 1 exactly when lose or win is 1; a torso
\* below 0.5 gives done = 1 and lose = 1.
C7_DoneFlag ==
    AfterStep =>
        /\ rwd_dict.done = 1 <=> (rwd_dict.lose = 1 \/ rwd_dict.solved = 1)
        /\ rwd_dict.done \in {0, 1}
        /\ pelvis_z < 500 => (rwd_dict.done = 1 /\ rwd_dict.lose = 1)

\* A step is done by a win alone.
C7_Witness ==
    /\ AfterStep
    /\ rwd_dict.done = 1 /\ rwd_dict.lose = 0 /\ rwd_dict.solved = 1

\* C8: after every step sparse is 1 - t/20 for the time t rounded to the
\* centisecond when the win flag is 1, and 0 when it is 0 (sparse is held in
\* units of 1/2000, t in centiseconds).
C8_SparseScore ==
    AfterStep =>
        /\ rwd_dict.solved = 0 => rwd_dict.sparse = 0
        /\ rwd_dict.solved = 1 =>
              \E c \in 0..2001 :
                  /\ 10 * c - time <= 5 /\ time - 10 * c <= 5
                  /\ rwd_dict.sparse = 2000 - c

\* A step won at 1.234 s: the score is 1 - 1.23/20.
C8_Witness ==
    /\ AfterStep
    /\ rwd_dict.solved = 1
    /\ time = 1234
    /\ rwd_dict.sparse = 2000 - 123

\* C9: whenever the opponent is idle, its policy is the one that the latest
\* reset_opponent drew, one of the three policies.
C9_PolicyDrawnEachEpisode ==
    OpponentIdle =>
        /\ policy_draw \in Policies
        /\ opponent_policy = policy_draw

\* C10: a policy that is none of the three is reported by a tick, as
\* NotImplementedError, and by nothing else.
C10_UnsetPolicyReportedByTick ==
    (opponent_policy \notin Policies /\ error # "none") =>
        /\ error = "NotImplementedError"
        /\ last_op \in {"tick", "step"}

\* C11: after every tick, whatever the noise sample, the opponent_vel the
\* controller holds has its linear part in [0, 1] and its angular part in
\* [-1, 1].
C11_StoredVelocityBounded ==
    (last_op \in {"tick", "step"} /\ error = "none" /\ OpponentIdle) =>
        /\ 0 <= opponent_vel[1] /\ opponent_vel[1] <= 1000
        /\ -1000 <= opponent_vel[2] /\ opponent_vel[2] <= 1000

\* C12: two runs with the same seed, the same configuration and the same
\* calls show the same task mode, reset state, opponent policy and opponent
\* pose at every point: every random choice comes from the seeded generator.
C12_SameSeedSameRun ==
    twin # NoTwin =>
        /\ twin.a.task = twin.b.task
        /\ twin.a.key = twin.b.key /\ twin.a.root = twin.b.root
        /\ twin.a.policy = twin.b.policy
        /\ twin.a.pose = twin.b.pose

\* C13: the spawn search of reset_opponent ends, whatever min_spawn_distance
\* and the agent's root position: while the loop runs, some point of the
\* square the candidates are drawn from is far enough to be accepted, so
\* that fair sampling leaves the loop.
C13_SpawnSearchCanEnd ==
    pc \in SpawnPcs =>
        \E c \in SpawnCorners :
            ~SpawnRejected(<<c[1], c[2], 0>>, root_pos, cfg.min_spawn_distance)

\* A step() of the environment was taken and returned.
StepTaken ==
    /\ last_op' = "step" /\ error' = "none"
    /\ (pc = "ready" /\ nsteps' = nsteps + 1) \/ (pc = "setup" /\ pc' = "setup_stepped")

\* C14: every step() ticks the opponent exactly once, then advances the
\* physics, then rebuilds the observation and the reward: the opponent has
\* moved by one command from where it was, and the observation returned
\* shows the pose and the velocity after that tick, at the new time, and
\* the reward is that of the new observation.
C14_TickThenObserve ==
    [][StepTaken =>
          /\ \E vel \in TickCommands(opponent_policy) :
                LET m == MoveOpponent(vel, mocap_pos, mocap_quat)
                IN  /\ mocap_pos' = m.pos /\ mocap_quat' = m.quat
                    /\ opponent_vel' = StoredVel(vel)
          /\ obs_dict'.opponent_pose = GetOpponentPose(mocap_pos', mocap_quat')
          /\ obs_dict'.opponent_vel = opponent_vel'
          /\ obs_dict'.time = time' /\ time' > time
          /\ obs_dict'.model_root_pos = root_pos'
          /\ rwd_dict' = GetRewardDict(pelvis_z', root_pos', obs_dict', startFlag)]_vars

\* A step moved an opponent of policy random away from its spawn pose and
\* returned the pose it moved to.
C14_Witness ==
    /\ AfterStep /\ pc = "ready" /\ nsteps = 1
    /\ opponent_policy = "random"
    /\ GetOpponentPose(mocap_pos, mocap_quat) # spawn_pose
    /\ obs_dict.opponent_pose = GetOpponentPose(mocap_pos, mocap_quat)

\* C15: reset() samples the task, computes and applies the reset state, and
\* resets the opponent last: while the spawn loop of that reset runs, and
\* when it has returned, the task, the time and the agent's root position
\* are already those of the new episode, and the pose written is at least
\* min_spawn_distance away from that root position.
C15_OpponentResetLast ==
    /\ (pc = "reset_spawn" \/ (pc = "ready" /\ last_op \in {"reset", "reset_opponent"})) =>
          /\ current_task \in SampleTask(cfg.task_choice)
          /\ root_pos \in GetResetState(cfg.reset_type)
          /\ pelvis_z \in KeyHeights
          /\ time = 0 /\ nsteps = 0
          /\ obs_dict.model_root_pos = root_pos /\ obs_dict.time = 0
    /\ (pc = "ready" /\ AfterResetOpponent /\ opponent_policy # "static_stationary") =>
          ~SpawnRejected(spawn_pose, root_pos, cfg.min_spawn_distance)

\* After steps that moved the agent, a reset() put it at (-3, -3) and its
\* opponent reset returned a pose tested against that position.
C15_Witness ==
    /\ pc = "ready" /\ AfterResetOpponent
    /\ cfg.reset_type = "random"
    /\ root_pos = <<-3000, -3000>>
    /\ rwd_dict # NoRwd
    /\ opponent_policy = "stationary"
    /\ mocap_pos = <<1000, 1000>>

\* get_heightmap_obs was called on the terrain as it is now.
WindowRead == heightfield # NoHeightField /\ heightfield.obs.called

\* C16: for every view_distance V, even or odd, and every position of the
\* agent inside the arena, get_heightmap_obs succeeds, returns V * V values,
\* and reads rows and columns that lie inside the padded map.
C16_WindowInsidePaddedMap ==
    WindowRead =>
        LET v == heightfield.view_distance
            obs == heightfield.obs
        IN  /\ heightfield.error = "none"
            /\ Len(obs.returned) = v * v
            /\ obs.shape = <<v, v>>
            /\ \A k \in 1..2 : 0 <= obs.start[k] /\ obs.stop[k] <= 2 * heightfield.nrow

\* C17: after a regeneration of the terrain, the centre cell of the window
\* returned by get_heightmap_obs, window[V/2][V/2], is the height of the
\* heightfield cell under the agent (0 where the agent stands beyond the
\* heightfield), for an agent at the centre of the map and anywhere in the
\* arena.
C17_WindowCentreUnderAgent ==
    (WindowRead /\ heightfield.error = "none" /\ heightfield.regens >= 1) =>
        LET v == heightfield.view_distance
            n == heightfield.nrow
            pos == heightfield.obs.pos
            \* the cell of side RealLength / n that holds pos, the
            \* heightfield being centred on the origin
            cell == <<(2 * pos[1] * n + n * RealLength) \div (2 * RealLength),
                      (2 * pos[2] * n + n * RealLength) \div (2 * RealLength)>>
            centre == heightfield.obs.returned[(v \div 2) * v + (v \div 2) + 1]
        IN  centre = IF cell \in Cells(n) THEN heightfield.data[cell] ELSE 0

\* The window was read over ground that is not flat, away from the centre
\* of the map.
C17_Witness ==
    /\ WindowRead /\ heightfield.error = "none" /\ heightfield.regens >= 1
    /\ heightfield.obs.pos = <<1500, -3100>>
    /\ heightfield.view_distance = 4
    /\ heightfield.obs.returned[11] # 0

\* C18: whatever nrow = ncol and patches_per_side, also one that does not
\* divide nrow, the patches tile the whole heightfield: after a regeneration
\* every cell lies in exactly one patch and was written by that
\* regeneration.
C18_PatchesTileHeightField ==
    (heightfield # NoHeightField /\ heightfield.regens >= 1) =>
        \A c \in Cells(heightfield.nrow) :
            /\ c \in heightfield.written
            /\ Cardinality({p \in heightfield.patches :
                               c \in PatchCells(p.i, p.j, heightfield.patch_size)}) = 1

\* The heights of the patch p as the heightfield holds them.
PatchHeights(p) ==
    {heightfield.data[c] : c \in PatchCells(p.i, p.j, heightfield.patch_size)}

\* C19: every patch that was generated is all zeros when 'flat', lies in
\* [-0.02, 0.06] when 'rough', and lies in [0, scalar] when 'hilly', for its
\* scalar drawn in [0.03, 0.23], rotated or not.
C19_PatchValueRanges ==
    heightfield # NoHeightField =>
        \A p \in heightfield.patches :
            /\ p.type = "flat" => PatchHeights(p) = {0}
            /\ p.type = "rough" =>
                  \A h \in PatchHeights(p) : -2000 <= h /\ h <= 6000
            /\ p.type = "hilly" =>
                  /\ 3000 <= p.scalar /\ p.scalar <= 23000
                  /\ \A h \in PatchHeights(p) : 0 <= h /\ h <= p.scalar

\* One regenerated terrain holds a flat patch, a rough patch that reaches both ends of
\* its range, and a rotated hilly patch that reaches both ends of its own.
C19_Witness ==
    /\ heightfield # NoHeightField /\ heightfield.regens >= 1
    /\ \E p \in heightfield.patches : p.type = "flat"
    /\ \E p \in heightfield.patches :
          p.type = "rough" /\ {-2000, 6000} \subseteq PatchHeights(p)
    /\ \E p \in heightfield.patches :
          p.type = "hilly" /\ p.rotated /\ {0, p.scalar} \subseteq PatchHeights(p)

\* _get_randomized_initial_state has returned a pose.
RandomizedPoseReturned == reset_state.calls > 0 /\ cfg.reset_type = "random"

\* C20: the pose _get_randomized_initial_state returns is key pose 2 or 3
\* with the noise added to every component but the height and the
\* orientation quaternion, which are exactly the key pose's, and the stored
\* key poses are as they were.
C20_HeightAndOrientationKept ==
    RandomizedPoseReturned =>
        LET key == KeyQpos[reset_state.key]
            qpos == reset_state.initial
        IN  /\ reset_state.key \in {2, 3}
            /\ reset_state.key_qpos = KeyQpos
            /\ qpos[3] = key[3]
            /\ \A i \in 4..7 : qpos[i] = key[i]
            /\ \A i \in (1..Len(key)) \ (3..7) : qpos[i] = key[i] + reset_state.noise[i]

\* C21: once the HeightField is constructed, and after any number of
\* regenerations, the padded map mirrors the heightfield: its central
\* nrow x ncol block equals hfield.data cell for cell and every cell outside
\* the block is zero.
C21_PaddedMapMirrorsHeightField ==
    heightfield # NoHeightField =>
        LET n == heightfield.nrow
            off == n \div 2
        IN  \A c \in Cells(2 * n) :
                heightfield.padded_map[c] =
                    IF <<c[1] - off, c[2] - off>> \in Cells(n)
                    THEN heightfield.data[<<c[1] - off, c[2] - off>>]
                    ELSE 0

\* C22: under the policies stationary and static_stationary the opponent
\* does not move: after any number of ticks that follow a reset, its pose
\* (x, y, heading) is the pose that reset wrote, as get_opponent_pose reads
\* it, and its velocity is (0, 0).
C22_StationaryNeverMoves ==
    (/\ OpponentIdle /\ error = "none"
     /\ last_op \in {"reset_opponent", "step", "setup"}
     /\ opponent_policy \in {"stationary", "static_stationary"}) =>
        /\ GetOpponentPose(mocap_pos, mocap_quat)
              = GetOpponentPose(<<spawn_pose[1], spawn_pose[2]>>,
                                Euler2Quat(spawn_pose[3]))
        /\ opponent_vel = <<0, 0>>

\* Two steps were taken in an episode whose opponent is stationary and was
\* spawned with the heading -6 rad.
C22_Witness ==
    /\ AfterStep /\ pc = "ready" /\ nsteps = 2
    /\ opponent_policy = "stationary"
    /\ spawn_pose[3] = -6000
    /\ mocap_pos = <<spawn_pose[1], spawn_pose[2]>>

\* C23: the observation reset() returns describes the opponent of the new
\* episode: its opponent_pose is the pose the opponent has when reset()
\* ends, the spawn pose of the opponent reset, and its opponent_vel is
\* (0, 0).
C23_ResetObservesNewOpponent ==
    (pc = "ready" /\ AfterResetOpponent) =>
        /\ obs_dict.opponent_pose = GetOpponentPose(mocap_pos, mocap_quat)
        /\ obs_dict.opponent_vel = <<0, 0>>

====
